---- MODULE Spec2Model ----
(***************************************************************************)
(* A model of basic_fuse.c: a passthrough FUSE filesystem that forwards    *)
(* every operation of its operation table to the backend directory         *)
(* DIR_PATH.  The backend (the POSIX calls the handlers make) is modelled  *)
(* by the sys_* operators; the handlers basic_* are translated from the    *)
(* source line by line.                                                    *)
(*                                                                         *)
(* Paths are sequences of one-character strings, so that snprintf's        *)
(* truncation is computed character by character.                          *)
(***************************************************************************)
EXTENDS Integers, Sequences, FiniteSets, TLC

VARIABLES
    DIR_PATH,   \* the backend root string (static const char *DIR_PATH)
    fs,         \* backend namespace: absolute component list -> inode number
    inodes,     \* backend inodes: number -> [kind, mode, mtime, data]
    fdt,        \* the process's descriptor table: fd -> NoFd or an open file
    fi,         \* the sessions' struct fuse_file_info: [flags, fh]
    obs,        \* what a backend test double observes per session
    last,       \* the last operation: its arguments, result and backend calls
    created,    \* virtual paths for which create has returned success
    thr,        \* the worker threads inside basic_write
    tpath,      \* PathSpec: the virtual path under translation
    tout        \* PathSpec: the results of the successive translations

vars == <<DIR_PATH, fs, inodes, fdt, fi, obs, last, created, thr, tpath, tout>>

-----------------------------------------------------------------------------
(* Bounds of the model *)

\* The platform's PATH_MAX (4096), scaled down so that truncation happens.
PATH_MAX == 20
\* Longest virtual path PathSpec translates.
MaxVPathLen == 6
\* Calls of get_full_path PathSpec makes on one path.
MaxTranslations == 2

(* errno values (errno.h) *)
ENOENT == 2
EINTR == 4
EIO == 5
EBADF == 9
EEXIST == 17
ENOTDIR == 20
EISDIR == 21
EINVAL == 22
EMFILE == 24
ENOSPC == 28
ENOTEMPTY == 39

-----------------------------------------------------------------------------
(* Strings *)

Chars == {"/", "a", "b", "d"}

\* "/tmp/fuse_data"
DirPathValue ==
    <<"/", "t", "m", "p", "/", "f", "u", "s", "e", "_", "d", "a", "t", "a">>

Dot == <<".">>
DotDot == <<".", ".">>

RECURSIVE SeqsOfLen(_)
SeqsOfLen(n) ==
    IF n = 0 THEN {<<>>}
    ELSE {Append(s, c) : s \in SeqsOfLen(n - 1), c \in Chars}

\* Every slash-rooted virtual path of at most MaxVPathLen characters.
AllVPaths ==
    UNION {{<<"/">> \o s : s \in SeqsOfLen(n)} : n \in 0..(MaxVPathLen - 1)}

IsPrefix(p, s) == Len(p) <= Len(s) /\ SubSeq(s, 1, Len(p)) = p

\* snprintf's copy of one %s argument into a buffer of out_size bytes: a
\* character is stored only while room is left for it and the final NUL.
RECURSIVE snprintf_str(_, _, _)
snprintf_str(buf, src, out_size) ==
    IF src = <<>> THEN buf
    ELSE IF Len(buf) + 1 < out_size
         THEN snprintf_str(Append(buf, Head(src)), Tail(src), out_size)
         ELSE buf

\* A faulty variant: the buffer is filled to out_size, leaving no room for the NUL.
get_full_path_nonul(path, out_size) ==
    snprintf_str(snprintf_str(<<>>, DIR_PATH, out_size + 1), path, out_size + 1)

\* snprintf(fpath_out, out_size, "%s%s", DIR_PATH, path)
\* A faulty variant: the virtual path is handed to the backend as it is.
get_full_path_noroot(path, out_size) == snprintf_str(<<>>, path, out_size)

get_full_path(path, out_size) ==
    snprintf_str(snprintf_str(<<>>, DIR_PATH, out_size), path, out_size)

\* A faulty variant: the child path is built without the separator.
child_path_noslash(fpath, d_name, out_size) ==
    snprintf_str(snprintf_str(<<>>, fpath, out_size), d_name, out_size)

\* snprintf(child, sizeof(child), "%s/%s", fpath, de->d_name)
child_path(fpath, d_name, out_size) ==
    snprintf_str(snprintf_str(snprintf_str(<<>>, fpath, out_size),
                              <<"/">>, out_size), d_name, out_size)

-----------------------------------------------------------------------------
(* The backend: namespace, inodes and descriptor table *)

\* RLIMIT_NOFILE, scaled down: descriptors are 0..OPEN_MAX-1.
OPEN_MAX == 5
\* Inode numbers the backend filesystem has (more files give ENOSPC).
MaxIno == 7

Tmp == <<"t", "m", "p">>
FuseData == <<"f", "u", "s", "e", "_", "d", "a", "t", "a">>
RootKey == <<Tmp, FuseData>>

Fds == 0..(OPEN_MAX - 1)
NoFd == [ino |-> -1, flags |-> {}]
\* stdin, stdout and stderr of the daemon
StdStream == [ino |-> 0, flags |-> {"O_RDWR"}]

DirInode(mode) == [kind |-> "dir", mode |-> mode, mtime |-> 0, data |-> <<>>]
FileInode(mode) == [kind |-> "file", mode |-> mode, mtime |-> 0, data |-> <<>>]

NoStat == [ino |-> 0, kind |-> "none", mode |-> 0, size |-> 0, mtime |-> 0]
\* struct stat as lstat fills it
StatOf(ino, tab) ==
    [ino |-> ino, kind |-> tab[ino].kind, mode |-> tab[ino].mode,
     size |-> Len(tab[ino].data), mtime |-> tab[ino].mtime]

Min(S) == CHOOSE x \in S : \A y \in S : x <= y
\* The element of a one-element set (used to evaluate a value once).
Only(S) == CHOOSE x \in S : TRUE
Front(s) == SubSeq(s, 1, Len(s) - 1)
Last(s) == s[Len(s)]

\* The components of a path: the text between slashes, empty ones dropped.
RECURSIVE Split(_, _, _)
Split(p, cur, acc) ==
    IF p = <<>> THEN (IF cur = <<>> THEN acc ELSE Append(acc, cur))
    ELSE IF Head(p) = "/"
         THEN Split(Tail(p), <<>>, IF cur = <<>> THEN acc ELSE Append(acc, cur))
         ELSE Split(Tail(p), Append(cur, Head(p)), acc)

TrailingSlash(p) == p # <<>> /\ Last(p) = "/"

IsDirKey(key) == key \in DOMAIN fs /\ inodes[fs[key]].kind = "dir"

\* Path resolution from the node `key` along `comps`.
RECURSIVE Walk(_, _)
Walk(comps, key) ==
    IF key \notin DOMAIN fs THEN [err |-> ENOENT, key |-> key]
    ELSE IF comps = <<>> THEN [err |-> 0, key |-> key]
    ELSE IF ~IsDirKey(key) THEN [err |-> ENOTDIR, key |-> key]
    ELSE IF Head(comps) = Dot THEN Walk(Tail(comps), key)
    ELSE IF Head(comps) = DotDot
         THEN Walk(Tail(comps), IF key = <<>> THEN key ELSE Front(key))
    ELSE Walk(Tail(comps), Append(key, Head(comps)))

\* The node an absolute path names.
Resolve(p) ==
    IF p = <<>> \/ Head(p) # "/" THEN [err |-> ENOENT, key |-> <<>>]
    ELSE LET r == Walk(Split(p, <<>>, <<>>), <<>>) IN
         IF r.err = 0 /\ TrailingSlash(p) /\ ~IsDirKey(r.key)
         THEN [err |-> ENOTDIR, key |-> r.key]
         ELSE r

\* The directory a new entry of path p goes to, and the entry's key; `ex`
\* tells whether the entry exists already.
ResolveParent(p) ==
    LET comps == Split(p, <<>>, <<>>) IN
    IF p = <<>> \/ Head(p) # "/" THEN [err |-> ENOENT, key |-> <<>>, ex |-> FALSE]
    ELSE IF comps = <<>> \/ Last(comps) \in {Dot, DotDot}
         THEN LET r == Walk(comps, <<>>) IN
              [err |-> r.err, key |-> r.key, ex |-> r.err = 0]
    ELSE LET r == Walk(Front(comps), <<>>) IN
         IF r.err # 0 THEN [err |-> r.err, key |-> r.key, ex |-> FALSE]
         ELSE IF ~IsDirKey(r.key)
              THEN [err |-> ENOTDIR, key |-> r.key, ex |-> FALSE]
         ELSE [err |-> 0, key |-> Append(r.key, Last(comps)),
               ex |-> Append(r.key, Last(comps)) \in DOMAIN fs]

Children(key) ==
    {k \in DOMAIN fs : Len(k) = Len(key) + 1 /\ IsPrefix(key, k)}

\* Inodes in use in a namespace and a descriptor table.
Live(nfs, nfdt) ==
    {nfs[k] : k \in DOMAIN nfs} \cup ({nfdt[d].ino : d \in Fds} \ {-1, 0})

\* The inode table without the inodes that no name and no descriptor holds.
Reclaim(tab, nfs, nfdt) ==
    [i \in (DOMAIN tab \cap Live(nfs, nfdt)) |-> tab[i]]

FreeInos == (1..MaxIno) \ DOMAIN inodes
FreeFds == {d \in Fds : fdt[d] = NoFd}

Unchanged(err) ==
    [err |-> err, fs |-> fs, inodes |-> inodes, fdt |-> fdt, fd |-> -1]

\* lstat(2)
sys_lstat(p) ==
    LET r == Resolve(p) IN
    IF r.err # 0 THEN [err |-> r.err, st |-> NoStat]
    ELSE [err |-> 0, st |-> StatOf(fs[r.key], inodes)]

WithKey(f, key, v) == [k \in DOMAIN f \cup {key} |-> IF k = key THEN v ELSE f[k]]
WithoutKey(f, key) == [k \in DOMAIN f \ {key} |-> f[k]]

WantsWrite(flags) == flags \cap {"O_WRONLY", "O_RDWR"} # {}
WantsRead(flags) == "O_WRONLY" \notin flags

\* The state after a descriptor for inode `ino` is opened with `flags`: the
\* lowest free descriptor is taken, and O_TRUNC empties a regular file.
Opened(nfs, tab, ino, flags) ==
    LET fd == Min(FreeFds)
        ntab == IF "O_TRUNC" \in flags /\ tab[ino].kind = "file"
                THEN [tab EXCEPT ![ino].data = <<>>] ELSE tab
    IN [err |-> 0, fs |-> nfs, inodes |-> ntab,
        fdt |-> [fdt EXCEPT ![fd] = [ino |-> ino, flags |-> flags]], fd |-> fd]

\* open(2) of path p with `flags` (and `mode`, which O_CREAT uses)
sys_open(p, flags, mode) ==
    IF FreeFds = {} THEN Unchanged(EMFILE)
    ELSE IF "O_CREAT" \in flags
    THEN LET r == ResolveParent(p) IN
         IF r.err # 0 THEN Unchanged(r.err)
         ELSE IF r.ex
              THEN IF IsDirKey(r.key) THEN Unchanged(EISDIR)
                   ELSE IF "O_EXCL" \in flags THEN Unchanged(EEXIST)
                   ELSE Opened(fs, inodes, fs[r.key], flags)
         ELSE IF TrailingSlash(p) THEN Unchanged(EISDIR)
         ELSE IF FreeInos = {} THEN Unchanged(ENOSPC)
         ELSE LET ino == Min(FreeInos) IN
              Opened(WithKey(fs, r.key, ino),
                     WithKey(inodes, ino, FileInode(mode)), ino, flags)
    ELSE LET r == Resolve(p) IN
         IF r.err # 0 THEN Unchanged(r.err)
         ELSE IF IsDirKey(r.key) /\ (WantsWrite(flags) \/ "O_TRUNC" \in flags)
              THEN Unchanged(EISDIR)
         ELSE Opened(fs, inodes, fs[r.key], flags)

\* close(2); with `eio` the backend reports a deferred write error, and the
\* descriptor is released all the same.
sys_close(fd, eio) ==
    IF fd \notin Fds \/ fdt[fd] = NoFd THEN Unchanged(EBADF)
    ELSE LET nfdt == [fdt EXCEPT ![fd] = NoFd] IN
         [err |-> IF eio THEN EIO ELSE 0, fs |-> fs,
          inodes |-> Reclaim(inodes, fs, nfdt), fdt |-> nfdt, fd |-> fd]

\* unlink(2)
sys_unlink(p) ==
    LET r == Resolve(p) IN
    IF r.err # 0 THEN Unchanged(r.err)
    ELSE IF IsDirKey(r.key) THEN Unchanged(EISDIR)
    ELSE LET nfs == WithoutKey(fs, r.key) IN
         [err |-> 0, fs |-> nfs, inodes |-> Reclaim(inodes, nfs, fdt),
          fdt |-> fdt, fd |-> -1]

\* mkdir(2)
sys_mkdir(p, mode) ==
    LET r == ResolveParent(p) IN
    IF r.err # 0 THEN Unchanged(r.err)
    ELSE IF r.ex THEN Unchanged(EEXIST)
    ELSE IF FreeInos = {} THEN Unchanged(ENOSPC)
    ELSE LET ino == Min(FreeInos) IN
         [err |-> 0, fs |-> WithKey(fs, r.key, ino),
          inodes |-> WithKey(inodes, ino, DirInode(mode)), fdt |-> fdt, fd |-> -1]

\* rmdir(2)
sys_rmdir(p) ==
    LET r == Resolve(p)
        comps == Split(p, <<>>, <<>>)
    IN
    IF r.err # 0 THEN Unchanged(r.err)
    ELSE IF ~IsDirKey(r.key) THEN Unchanged(ENOTDIR)
    ELSE IF comps # <<>> /\ Last(comps) = Dot THEN Unchanged(EINVAL)
    ELSE IF Children(r.key) # {} \/ r.key = <<>> THEN Unchanged(ENOTEMPTY)
    ELSE LET nfs == WithoutKey(fs, r.key) IN
         [err |-> 0, fs |-> nfs, inodes |-> Reclaim(inodes, nfs, fdt),
          fdt |-> fdt, fd |-> -1]

\* chmod(2)
sys_chmod(p, mode) ==
    LET r == Resolve(p) IN
    IF r.err # 0 THEN Unchanged(r.err)
    ELSE [err |-> 0, fs |-> fs,
          inodes |-> [inodes EXCEPT ![fs[r.key]].mode = mode],
          fdt |-> fdt, fd |-> -1]

\* `data` cut or zero-filled to `size` bytes
Resize(data, size) ==
    [i \in 1..size |-> IF i <= Len(data) THEN data[i] ELSE 0]

\* truncate(2)
sys_truncate(p, size) ==
    LET r == Resolve(p) IN
    IF r.err # 0 THEN Unchanged(r.err)
    ELSE IF IsDirKey(r.key) THEN Unchanged(EISDIR)
    ELSE [err |-> 0, fs |-> fs,
          inodes |-> [inodes EXCEPT ![fs[r.key]].data = Resize(@, size)],
          fdt |-> fdt, fd |-> -1]

\* utimensat(AT_FDCWD, p, ts, 0)
sys_utimensat(p, ts) ==
    LET r == Resolve(p) IN
    IF r.err # 0 THEN Unchanged(r.err)
    ELSE [err |-> 0, fs |-> fs,
          inodes |-> [inodes EXCEPT ![fs[r.key]].mtime = ts],
          fdt |-> fdt, fd |-> -1]

\* A faulty variant: the entry is copied to `new` and stays at `old` as well.
Moved_keeps_old(old, new) ==
    [k \in DOMAIN fs \cup {new} |-> IF k = new THEN fs[old] ELSE fs[k]]

\* The namespace after the subtree at `old` has moved to `new` (what was at
\* `new` is replaced).
Moved(old, new) ==
    LET kept == {k \in DOMAIN fs : ~IsPrefix(old, k) /\ ~IsPrefix(new, k)}
        moved == {k \in DOMAIN fs : IsPrefix(old, k)}
        target(k) == new \o SubSeq(k, Len(old) + 1, Len(k))
    IN [k \in kept \cup {target(m) : m \in moved} |->
           IF k \in kept THEN fs[k]
           ELSE fs[CHOOSE m \in moved : target(m) = k]]

\* rename(2)
sys_rename(old, new) ==
    LET o == Resolve(old)
        n == ResolveParent(new)
    IN
    IF o.err # 0 THEN Unchanged(o.err)
    ELSE IF n.err # 0 THEN Unchanged(n.err)
    ELSE IF n.ex /\ fs[n.key] = fs[o.key] THEN Unchanged(0)
    ELSE IF o.key = <<>> \/ IsPrefix(o.key, n.key) THEN Unchanged(EINVAL)
    ELSE IF IsPrefix(n.key, o.key) THEN Unchanged(ENOTEMPTY)
    ELSE IF n.ex /\ IsDirKey(o.key) /\ ~IsDirKey(n.key) THEN Unchanged(ENOTDIR)
    ELSE IF n.ex /\ ~IsDirKey(o.key) /\ IsDirKey(n.key) THEN Unchanged(EISDIR)
    ELSE IF ~IsDirKey(o.key) /\ TrailingSlash(new) THEN Unchanged(ENOTDIR)
    ELSE IF n.ex /\ Children(n.key) # {} THEN Unchanged(ENOTEMPTY)
    ELSE LET nfs == Moved(o.key, n.key) IN
         [err |-> 0, fs |-> nfs, inodes |-> Reclaim(inodes, nfs, fdt),
          fdt |-> fdt, fd |-> -1]

-----------------------------------------------------------------------------
(* The handlers of the operation table *)

\* Sessions (struct fuse_file_info objects) the consumer has at a time.
NSessions == 2
\* Releases the consumer may issue on one session (the contract allows one).
MaxRelease == 2

Sessions == 1..NSessions

\* A fuse_file_info as the consumer hands it over: zeroed but for the flags.
NewFi == [flags |-> {}, fh |-> 0]
\* What the backend's test double has seen of a session: its state, the
\* descriptor open(2) gave it, the descriptors its releases closed, the
\* number of its releases, the handler that opened it and whether that
\* handler made the file.
NewObs ==
    [state |-> "Closed", bound |-> -1, closed |-> <<>>, rel |-> 0,
     how |-> "none", fresh |-> FALSE]

\* One backend call as the handler issued it.
Call(name, p, flags, fd, err) ==
    [call |-> name, path |-> p, flags |-> flags, fd |-> fd, err |-> err]

\* return -errno
Errno(err) == 0 - err

Op(name, path, to, s, flags, ret, calls, out) ==
    [op |-> name, path |-> path, to |-> to, s |-> s, flags |-> flags,
     ret |-> ret, calls |-> calls, out |-> out]

\* Whether some worker thread is inside basic_write on session s.
Writing(s) == \E t \in DOMAIN thr : thr[t].pc = "loop" /\ thr[t].s = s

Backend(r) ==
    /\ fs' = r.fs
    /\ inodes' = r.inodes
    /\ fdt' = r.fdt

\* basic_getattr: the result and stat buffer of a call in the current state
basic_getattr(path) ==
    LET fpath == get_full_path(path, PATH_MAX)
        r == sys_lstat(fpath)
    IN [ret |-> IF r.err # 0 THEN Errno(r.err) ELSE 0, stbuf |-> r.st,
        calls |-> <<Call("lstat", fpath, {}, -1, r.err)>>]

Getattr(path) ==
    \E g \in {basic_getattr(path)} :
    /\ last' = Op("getattr", path, <<>>, 0, {}, g.ret, g.calls, g.stbuf)
    /\ UNCHANGED <<DIR_PATH, fs, inodes, fdt, fi, obs, created, thr, tpath, tout>>

\* A faulty variant: the consumer's flags are used as they are.
create_flags_asked(fiflags) == fiflags

\* The flags basic_create opens with: O_CREAT | O_WRONLY, and O_APPEND when
\* the consumer's flags hold it.
create_flags(fiflags) ==
    {"O_CREAT", "O_WRONLY"} \cup (IF "O_APPEND" \in fiflags THEN {"O_APPEND"} ELSE {})

\* The flags basic_open opens with: fi->flags as they are.
open_flags(fiflags) == fiflags

\* A faulty variant: fi->fh is written whatever open(2) returned.
Bind_unchecked(s, reqflags, r, how, fresh) ==
    /\ fi' = [fi EXCEPT ![s] = [flags |-> reqflags, fh |-> r.fd]]
    /\ obs' = [obs EXCEPT ![s] = [state |-> "Open", bound |-> r.fd,
                                  closed |-> <<>>, rel |-> 0,
                                  how |-> how, fresh |-> fresh]]

\* The session after a handler's open(2) returned r: fi->fh is written on
\* success only.
Bind(s, reqflags, r, how, fresh) ==
    /\ fi' = [fi EXCEPT ![s] = [flags |-> reqflags,
                                fh |-> IF r.err # 0 THEN fi[s].fh ELSE r.fd]]
    /\ obs' = [obs EXCEPT ![s] = IF r.err # 0 THEN @
                                 ELSE [state |-> "Open", bound |-> r.fd,
                                       closed |-> <<>>, rel |-> 0,
                                       how |-> how, fresh |-> fresh]]

\* basic_create on a fresh session whose flags the consumer set to reqflags
CreateOp(s, path, mode, reqflags) ==
    \E fpath \in {get_full_path(path, PATH_MAX)}, flags \in {create_flags(reqflags)} :
    \E r \in {sys_open(fpath, flags, mode)} :
    /\ obs[s].state = "Closed"
    /\ Backend(r)
    /\ Bind(s, reqflags, r, "create", Resolve(fpath).err # 0)
    /\ last' = Op("create", path, <<>>, s, reqflags,
                  IF r.err # 0 THEN Errno(r.err) ELSE 0,
                  <<Call("open", fpath, flags, r.fd, r.err)>>, mode)
    /\ UNCHANGED <<DIR_PATH, thr, tpath, tout>>

\* basic_open on a fresh session whose flags the consumer set to reqflags
Open(s, path, reqflags) ==
    \E fpath \in {get_full_path(path, PATH_MAX)}, flags \in {open_flags(reqflags)} :
    \E r \in {sys_open(fpath, flags, 0)} :
    /\ obs[s].state = "Closed"
    /\ Backend(r)
    /\ Bind(s, reqflags, r, "open", FALSE)
    /\ last' = Op("open", path, <<>>, s, reqflags,
                  IF r.err # 0 THEN Errno(r.err) ELSE 0,
                  <<Call("open", fpath, flags, r.fd, r.err)>>, <<>>)
    /\ UNCHANGED <<DIR_PATH, created, thr, tpath, tout>>

\* A faulty variant: the release closes nothing.
release_closes_never(fd) == fd < 0

\* Whether basic_release closes the descriptor it reads from fi->fh.
release_closes(fd) == fd >= 0

\* A faulty variant: the release closes descriptor 3 whatever fi->fh holds.
release_fd_fixed(fh) == 3

\* int fd = (int) fi->fh
release_fd(fh) == fh

\* basic_release; `eio` is whether the backend's close reports an error.
Release(s, eio) ==
    \E fd \in {release_fd(fi[s].fh)} :
    \E r \in {IF release_closes(fd) THEN sys_close(fd, eio) ELSE Unchanged(0)} :
    /\ obs[s].state \in {"Open", "Released"}
    /\ obs[s].rel < MaxRelease
    /\ ~Writing(s)
    /\ Backend(r)
    /\ fi' = [fi EXCEPT ![s].fh = IF release_closes(fd) THEN 0 ELSE @]
    /\ obs' = [obs EXCEPT ![s].state = "Released",
                          ![s].rel = @ + 1,
                          ![s].closed = IF release_closes(fd) THEN Append(@, fd)
                                        ELSE @]
    /\ last' = Op("release", <<>>, <<>>, s, {}, 0,
                  IF release_closes(fd) THEN <<Call("close", <<>>, {}, fd, r.err)>>
                  ELSE <<>>, <<>>)
    /\ UNCHANGED <<DIR_PATH, created, thr, tpath, tout>>

\* The consumer drops a released fuse_file_info and allocates a fresh one.
Recycle(s) ==
    /\ obs[s].state = "Released"
    /\ obs[s].rel = 1
    /\ fi' = [fi EXCEPT ![s] = NewFi]
    /\ obs' = [obs EXCEPT ![s] = NewObs]
    /\ last' = Op("recycle", <<>>, <<>>, s, {}, 0, <<>>, <<>>)
    /\ UNCHANGED <<DIR_PATH, fs, inodes, fdt, created, thr, tpath, tout>>

\* A handler that forwards one path to one backend call r.
Forward(name, sys, path, fpath, res, arg) ==
    \E r \in {res} :
    /\ Backend(r)
    /\ last' = Op(name, path, <<>>, 0, {},
                  IF r.err # 0 THEN Errno(r.err) ELSE 0,
                  <<Call(sys, fpath, {}, -1, r.err)>>, arg)
    /\ UNCHANGED <<DIR_PATH, fi, obs, created, thr, tpath, tout>>

\* basic_unlink
Unlink(path) ==
    \E fpath \in {get_full_path(path, PATH_MAX)} :
    Forward("unlink", "unlink", path, fpath, sys_unlink(fpath), <<>>)

\* basic_mkdir
Mkdir(path, mode) ==
    \E fpath \in {get_full_path(path, PATH_MAX)} :
    Forward("mkdir", "mkdir", path, fpath, sys_mkdir(fpath, mode), mode)

\* basic_rmdir
Rmdir(path) ==
    \E fpath \in {get_full_path(path, PATH_MAX)} :
    Forward("rmdir", "rmdir", path, fpath, sys_rmdir(fpath), <<>>)

\* basic_chmod
Chmod(path, mode) ==
    \E fpath \in {get_full_path(path, PATH_MAX)} :
    Forward("chmod", "chmod", path, fpath, sys_chmod(fpath, mode), mode)

\* basic_truncate
Truncate(path, size) ==
    \E fpath \in {get_full_path(path, PATH_MAX)} :
    Forward("truncate", "truncate", path, fpath, sys_truncate(fpath, size), size)

\* basic_utimens
Utimens(path, ts) ==
    \E fpath \in {get_full_path(path, PATH_MAX)} :
    Forward("utimens", "utimensat", path, fpath, sys_utimensat(fpath, ts), ts)

\* A faulty variant: the flags are ignored and the rename is forwarded.
rename_result_noflagcheck(from, to, flags) ==
    LET ffrom == get_full_path(from, PATH_MAX)
        fto == get_full_path(to, PATH_MAX)
        r == sys_rename(ffrom, fto)
    IN [r |-> r, ret |-> IF r.err # 0 THEN Errno(r.err) ELSE 0,
        calls |-> <<[call |-> "rename", path |-> ffrom, flags |-> {},
                     fd |-> -1, err |-> r.err]>>]

\* basic_rename: the backend's answer, the return value and the calls made
rename_result(from, to, flags) ==
    IF flags # 0
    THEN [r |-> Unchanged(0), ret |-> Errno(EINVAL), calls |-> <<>>]
    ELSE LET ffrom == get_full_path(from, PATH_MAX)
             fto == get_full_path(to, PATH_MAX)
             r == sys_rename(ffrom, fto)
         IN [r |-> r, ret |-> IF r.err # 0 THEN Errno(r.err) ELSE 0,
             calls |-> <<Call("rename", ffrom, {}, -1, r.err)>>]

\* basic_rename; the observer keeps the attributes `from` and `to` had
\* before the call.
Rename(from, to, flags) ==
    \E x \in {rename_result(from, to, flags)} :
    /\ Backend(x.r)
    /\ last' = Op("rename", from, to, 0, flags, x.ret, x.calls,
                  [from |-> basic_getattr(from).stbuf,
                   to |-> basic_getattr(to).stbuf])
    /\ UNCHANGED <<DIR_PATH, fi, obs, created, thr, tpath, tout>>

-----------------------------------------------------------------------------
(* basic_readdir *)

RECURSIVE SeqOf(_)
SeqOf(S) == IF S = {} THEN <<>>
            ELSE LET x == CHOOSE y \in S : TRUE IN <<x>> \o SeqOf(S \ {x})

Reverse(q) == [i \in 1..Len(q) |-> q[Len(q) + 1 - i]]

\* The names readdir(3) returns for the directory at `key`.
DirNames(key) == {Dot, DotDot} \cup {Last(k) : k \in Children(key)}

\* opendir(3): the handle takes the lowest free descriptor.
sys_opendir(p) ==
    LET r == Resolve(p) IN
    IF FreeFds = {} THEN Unchanged(EMFILE)
    ELSE IF r.err # 0 THEN Unchanged(r.err)
    ELSE IF ~IsDirKey(r.key) THEN Unchanged(ENOTDIR)
    ELSE [err |-> 0, fs |-> fs, inodes |-> inodes,
          fdt |-> [fdt EXCEPT ![Min(FreeFds)] =
                      [ino |-> fs[r.key], flags |-> {"O_DIRECTORY"}]],
          fd |-> Min(FreeFds)]

\* A faulty variant: the handle stays open.
sys_closedir_leaks(tab, dp) == tab

\* closedir(3) on the table `tab`
sys_closedir(tab, dp) == [tab EXCEPT ![dp] = NoFd]

\* A faulty variant: the lookup of an entry never fails.
lstat_entry_never_fails(child, d_name, broken) == sys_lstat(child)

\* lstat(child) for one entry.  `broken` are the entries whose lstat fails
\* in the backend (removed by someone else since readdir(3) returned them,
\* or in a directory that may be read but not searched).
lstat_entry(child, d_name, broken) ==
    IF d_name \in broken THEN [err |-> ENOENT, st |-> NoStat] ELSE sys_lstat(child)

\* The consumer's callback (fuse_fill_dir_t): it has room for `room` entries
\* and returns 1 when handed one more, after `emitted`.
filler(emitted, room) == IF Len(emitted) >= room THEN 1 ELSE 0

\* A faulty variant: the loop goes on whatever the callback returned.
breaks_never(res) == FALSE

\* if (filler(...)) break;
breaks_on(res) == res # 0

\* The while loop of basic_readdir over the entries `ents` still to come.
RECURSIVE readdir_loop(_, _, _, _, _, _)
readdir_loop(ents, fpath, broken, room, emitted, calls) ==
    IF ents = <<>>
    THEN [emitted |-> emitted, calls |-> calls, stopped |-> FALSE]
    ELSE Only(UNION {{
           IF st.err # 0
           THEN readdir_loop(Tail(ents), fpath, broken, room, emitted,
                             Append(calls, Call("lstat", child, {}, -1, st.err)))
           ELSE IF breaks_on(filler(emitted, room))
           THEN [emitted |-> Append(emitted, Head(ents)),
                 calls |-> Append(calls, Call("lstat", child, {}, -1, 0)),
                 stopped |-> TRUE]
           ELSE readdir_loop(Tail(ents), fpath, broken, room,
                             Append(emitted, Head(ents)),
                             Append(calls, Call("lstat", child, {}, -1, 0)))
           : st \in {lstat_entry(child, Head(ents), broken)}}
           : child \in {child_path(fpath, Head(ents), PATH_MAX)}})

\* After opendir(3) gave the handle dp: the loop, then closedir(3).
readdir_opened(fpath, dp, rev, broken, room) ==
    Only({[ret |-> 0, emitted |-> lp.emitted, stopped |-> lp.stopped,
           calls |-> Append(lp.calls, Call("closedir", <<>>, {}, dp.fd, 0)),
           fdt |-> sys_closedir(dp.fdt, dp.fd)]
          : lp \in {readdir_loop(
                      IF rev THEN Reverse(SeqOf(DirNames(Resolve(fpath).key)))
                      ELSE SeqOf(DirNames(Resolve(fpath).key)),
                      fpath, broken, room, <<>>,
                      <<Call("opendir", fpath, {}, dp.fd, 0)>>)}})

\* basic_readdir: the return value, the names handed to the callback, the
\* backend calls and the descriptor table the call leaves.
basic_readdir(path, rev, broken, room) ==
    Only(UNION {{
        IF dp.err # 0
        THEN [ret |-> Errno(dp.err), emitted |-> <<>>, stopped |-> FALSE,
              calls |-> <<Call("opendir", fpath, {}, -1, dp.err)>>, fdt |-> fdt]
        ELSE readdir_opened(fpath, dp, rev, broken, room)
        : dp \in {sys_opendir(fpath)}}
        : fpath \in {get_full_path(path, PATH_MAX)}})

\* Entries of the directory a virtual path translates to (none if it is not
\* a directory).
EntriesOf(path) ==
    LET r == Resolve(get_full_path(path, PATH_MAX)) IN
    IF r.err = 0 /\ IsDirKey(r.key) THEN DirNames(r.key) ELSE {}

Readdir(path, rev, broken, room) ==
    \E x \in {basic_readdir(path, rev, broken, room)} :
    /\ broken \subseteq EntriesOf(path)
    /\ fdt' = x.fdt
    /\ last' = Op("readdir", path, <<>>, 0, {}, x.ret, x.calls,
                  [emitted |-> x.emitted, stopped |-> x.stopped,
                   broken |-> broken, room |-> room])
    /\ UNCHANGED <<DIR_PATH, fs, inodes, fi, obs, created, thr, tpath, tout>>

-----------------------------------------------------------------------------
(* basic_read and basic_write *)

\* Largest file the backend stores (more gives ENOSPC).
MaxFileLen == 3
ESPIPE == 29

\* What one pwrite(2) may answer: an error, or the number of bytes taken.
Outcomes(to_write) ==
    {[err |-> e, n |-> -1] : e \in {EINTR, EIO}}
        \cup {[err |-> 0, n |-> n] : n \in 0..to_write}

\* `data` with `bytes` stored from byte position pos on (a gap is zero-filled)
Overlay(data, pos, bytes) ==
    [i \in 1..(IF pos + Len(bytes) > Len(data) THEN pos + Len(bytes) ELSE Len(data)) |->
        IF i > pos /\ i <= pos + Len(bytes) THEN bytes[i - pos]
        ELSE IF i <= Len(data) THEN data[i] ELSE 0]

\* The bytes of `data` in [off, off + size)
Range(data, off, size) ==
    IF off >= Len(data) THEN <<>>
    ELSE SubSeq(data, off + 1, IF off + size > Len(data) THEN Len(data) ELSE off + size)

\* pread(2)
sys_pread(fd, size, off) ==
    IF fd \notin Fds \/ fdt[fd] = NoFd \/ ~WantsRead(fdt[fd].flags)
    THEN [err |-> EBADF, bytes |-> <<>>]
    ELSE IF fdt[fd].ino = 0 THEN [err |-> ESPIPE, bytes |-> <<>>]
    ELSE IF inodes[fdt[fd].ino].kind = "dir" THEN [err |-> EISDIR, bytes |-> <<>>]
    ELSE [err |-> 0, bytes |-> Range(inodes[fdt[fd].ino].data, off, size)]

\* Where pwrite(2) stores: at the offset, but at the end of the file on a
\* descriptor opened with O_APPEND (pwrite(2), BUGS: Linux appends whatever
\* the offset).
write_pos(fd, off) ==
    IF "O_APPEND" \in fdt[fd].flags THEN Len(inodes[fdt[fd].ino].data) ELSE off

\* pwrite(2) of `bytes` at `off` when the backend answers `oc`
sys_pwrite(fd, bytes, off, oc) ==
    IF fd \notin Fds \/ fdt[fd] = NoFd \/ ~WantsWrite(fdt[fd].flags)
    THEN [err |-> EBADF, n |-> -1, inodes |-> inodes]
    ELSE IF fdt[fd].ino = 0 THEN [err |-> ESPIPE, n |-> -1, inodes |-> inodes]
    ELSE IF oc.err # 0 THEN [err |-> oc.err, n |-> -1, inodes |-> inodes]
    ELSE LET ino == fdt[fd].ino
             pos == write_pos(fd, off)
             room == MaxFileLen - pos
             n == IF oc.n > room THEN room ELSE oc.n
         IN IF oc.n > 0 /\ room <= 0
            THEN [err |-> ENOSPC, n |-> -1, inodes |-> inodes]
            ELSE [err |-> 0, n |-> n,
                  inodes |-> IF n = 0 THEN inodes
                             ELSE [inodes EXCEPT ![ino].data =
                                      Overlay(@, pos, SubSeq(bytes, 1, n))]]

\* basic_read
Read(s, size, offset) ==
    LET r == sys_pread(fi[s].fh, size, offset) IN
    /\ obs[s].state = "Open"
    /\ last' = Op("read", <<>>, <<>>, s, {},
                  IF r.err # 0 THEN Errno(r.err) ELSE Len(r.bytes),
                  <<Call("pread", <<>>, {}, fi[s].fh, r.err)>>,
                  [bytes |-> r.bytes, size |-> size, offset |-> offset])
    /\ UNCHANGED <<DIR_PATH, fs, inodes, fdt, fi, obs, created, thr, tpath, tout>>

\* The file a session's descriptor is open on (<<>> when it is none).
DataOf(s) ==
    LET fd == fi[s].fh IN
    IF fd \in Fds /\ fdt[fd].ino > 0 THEN inodes[fdt[fd].ino].data ELSE <<>>

\* basic_write, up to the loop: to_write = size, off = offset, p = buf.
\* `before` is the file as the call found it.
WriteCall(t, s, buf, offset) ==
    /\ thr[t].pc # "loop"
    /\ obs[s].state = "Open"
    /\ thr' = [thr EXCEPT ![t] =
                 [pc |-> IF Len(buf) > 0 THEN "loop" ELSE "done",
                  s |-> s, buf |-> buf, size |-> Len(buf), offset |-> offset,
                  to_write |-> Len(buf), off |-> offset, p |-> 0,
                  written |-> 0, errno |-> 0,
                  ret |-> IF Len(buf) > 0 THEN 0 ELSE Len(buf),
                  before |-> DataOf(s), calls |-> 0,
                  ino |-> fdt[fi[s].fh].ino,
                  fresh |-> obs[s].how = "create" /\ obs[s].fresh]]
    /\ last' = Op("write", <<>>, <<>>, s, {}, 0, <<>>, <<>>)
    /\ UNCHANGED <<DIR_PATH, fs, inodes, fdt, fi, obs, created, tpath, tout>>

\* A faulty variant: the loop returns after the first successful pwrite.
write_done_short(to_write, written) == TRUE

\* Whether the loop ends after a pwrite that took `written` of `to_write`.
write_done(to_write, written) == ~(to_write - written > 0)

\* A faulty variant: the offset restarts at the count of the last pwrite.
next_off_restarts(off, written) == written

\* off += written
next_off(off, written) == off + written

\* One iteration of the loop of basic_write in thread t: one pwrite(2).
WriteIter(t, oc) ==
    /\ thr[t].pc = "loop"
    /\ oc \in Outcomes(thr[t].to_write)
    /\ \E w \in {thr[t]} :
       \E fd \in {fi[w.s].fh} :
       \E r \in {sys_pwrite(fd, SubSeq(w.buf, w.p + 1, w.size), w.off, oc)} :
       \E written \in {IF r.err # 0 THEN -1 ELSE r.n} :
       /\ inodes' = r.inodes
       /\ thr' = [thr EXCEPT ![t] =
                    IF written = -1
                    THEN IF r.err = EINTR
                         THEN [w EXCEPT !.written = -1, !.errno = EINTR,
                                        !.calls = 1]
                         ELSE [w EXCEPT !.written = -1, !.errno = r.err,
                                        !.calls = 1,
                                        !.pc = "done", !.ret = Errno(r.err)]
                    ELSE [w EXCEPT !.written = written, !.errno = 0,
                                   !.calls = 1,
                                   !.to_write = @ - written,
                                   !.p = @ + written,
                                   !.off = next_off(@, written),
                                   !.pc = IF write_done(w.to_write, written)
                                          THEN "done" ELSE "loop",
                                   !.ret = IF write_done(w.to_write, written)
                                           THEN w.size ELSE 0]]
       /\ last' = Op("write", <<>>, <<>>, w.s, {},
                     thr'[t].ret, <<Call("pwrite", <<>>, {}, fd, r.err)>>, <<>>)
       /\ UNCHANGED <<DIR_PATH, fs, fdt, fi, obs, created, tpath, tout>>

-----------------------------------------------------------------------------
(* The initial state: an empty backend directory, no session *)

\* Worker threads of the consumer.
NThreads == 2
Threads == 1..NThreads

IdleThread ==
    [pc |-> "idle", s |-> 0, buf |-> <<>>, size |-> 0, offset |-> 0,
     to_write |-> 0, off |-> 0, p |-> 0, written |-> 0, errno |-> 0,
     ret |-> 0, before |-> <<>>, calls |-> 0, ino |-> 0, fresh |-> FALSE]

NoLast ==
    [op |-> "none", path |-> <<>>, to |-> <<>>, s |-> 0, flags |-> {},
     ret |-> 0, calls |-> <<>>, out |-> <<>>]

InitBackend ==
    /\ DIR_PATH = DirPathValue
    /\ fs = (<<>> :> 1) @@ (<<Tmp>> :> 2) @@ (RootKey :> 3)
    /\ inodes = [i \in 1..3 |-> DirInode(493)]
    /\ fdt = [d \in Fds |-> IF d <= 2 THEN StdStream ELSE NoFd]

InitCore ==
    /\ fi = [s \in Sessions |-> NewFi]
    /\ obs = [s \in Sessions |-> NewObs]
    /\ last = NoLast
    /\ created = {}
    /\ thr = [t \in Threads |-> IdleThread]
    /\ tout = <<>>

Init ==
    /\ InitBackend
    /\ InitCore
    /\ tpath = <<"/">>

-----------------------------------------------------------------------------
(* Virtual paths and flags the consumer passes *)

PathRoot == <<"/">>
PathA == <<"/", "a">>
PathB == <<"/", "b">>
PathAB == <<"/", "a", "/", "b">>
PathD == <<"/", "d">>
PathDA == <<"/", "d", "/", "a">>
PathDB == <<"/", "d", "/", "b">>
PathDAB == <<"/", "d", "/", "a", "b">>
PathDABA == <<"/", "d", "/", "a", "b", "a">>
\* Two paths that differ in their last character only
PathLongA == <<"/", "b", "b", "b", "b", "b", "a">>
PathLongB == <<"/", "b", "b", "b", "b", "b", "b">>

\* Rename flags: none, RENAME_NOREPLACE
RenameFlags == {0, 1}

\* The backend directory with the directories and empty files `dirs` and
\* `files` (virtual paths, parents first) already in it.
RECURSIVE Populated(_, _, _, _)
Populated(nfs, tab, dirs, files) ==
    IF dirs # <<>>
    THEN LET ino == Min((1..MaxIno) \ DOMAIN tab) IN
         Populated(WithKey(nfs, RootKey \o Split(Head(dirs), <<>>, <<>>), ino),
                   WithKey(tab, ino, DirInode(493)), Tail(dirs), files)
    ELSE IF files # <<>>
    THEN LET ino == Min((1..MaxIno) \ DOMAIN tab) IN
         Populated(WithKey(nfs, RootKey \o Split(Head(files), <<>>, <<>>), ino),
                   WithKey(tab, ino, FileInode(420)), dirs, Tail(files))
    ELSE [fs |-> nfs, inodes |-> tab]

EmptyFs == (<<>> :> 1) @@ (<<Tmp>> :> 2) @@ (RootKey :> 3)
EmptyInodes == [i \in 1..3 |-> DirInode(493)]

InitWith(dirs, files) ==
    /\ DIR_PATH = DirPathValue
    /\ fs = Populated(EmptyFs, EmptyInodes, dirs, files).fs
    /\ inodes = Populated(EmptyFs, EmptyInodes, dirs, files).inodes
    /\ fdt = [d \in Fds |-> IF d <= 2 THEN StdStream ELSE NoFd]
    /\ InitCore
    /\ tpath = <<"/">>

-----------------------------------------------------------------------------
(* Spec: the metadata forwarder's namespace operations *)

NsPaths == {PathA, PathAB}
RenamePaths == NsPaths \cup {PathLongA, PathLongB}

\* The name under the backend root that a virtual path is stored at.
Stored(path) ==
    LET full == snprintf_str(snprintf_str(<<>>, DirPathValue, PATH_MAX), path,
                             PATH_MAX)
    IN SubSeq(full, Len(DirPathValue) + 1, Len(full))

NsInit ==
    \E files \in {<<>>, <<PathA>>, <<PathA, Stored(PathLongA)>>} :
        InitWith(<<>>, files)

Next ==
    \/ \E path \in NsPaths \cup {PathRoot} : Getattr(path)
    \/ \E path \in NsPaths : Unlink(path)
    \/ \E path \in NsPaths : Mkdir(path, 493)
    \/ \E path \in NsPaths : Rmdir(path)
    \/ \E from \in RenamePaths, to \in RenamePaths, fl \in RenameFlags :
          Rename(from, to, fl)

Spec == NsInit /\ [][Next]_vars

-----------------------------------------------------------------------------
(* MetaSpec: the metadata forwarder's attribute operations *)

MetaPaths == {PathA, PathB}

MetaNext ==
    \/ \E path \in MetaPaths : Getattr(path)
    \/ \E path \in MetaPaths : Chmod(path, 384)
    \/ \E path \in MetaPaths, size \in {0, 2} : Truncate(path, size)
    \/ \E path \in MetaPaths : Utimens(path, 1)
    \/ \E path \in MetaPaths : Mkdir(path, 493)
    \/ \E path \in MetaPaths : Unlink(path)

MetaSpec == InitWith(<<>>, <<PathA>>) /\ [][MetaNext]_vars

-----------------------------------------------------------------------------
(* SessSpec: the handle table: create, open and release *)

SessPaths == {PathA}
SessCreateFlags == {{"O_CREAT", "O_RDWR", "O_APPEND"}}
SessOpenFlags == {{"O_RDWR"}}

\* A create of PathAB fails: its directory is never there.
SessCreatePaths == SessPaths \cup {PathAB}

SessCreate ==
    \E s \in Sessions, path \in SessCreatePaths, fl \in SessCreateFlags :
        CreateOp(s, path, 420, fl) /\ UNCHANGED created

SessNext ==
    \/ SessCreate
    \/ \E s \in Sessions, path \in SessPaths, fl \in SessOpenFlags :
          Open(s, path, fl)
    \/ \E s \in Sessions, eio \in BOOLEAN : Release(s, eio)
    \/ \E s \in Sessions : Recycle(s)

SessSpec == Init /\ [][SessNext]_vars

-----------------------------------------------------------------------------
(* DirSpec: creates in one directory, and its enumeration *)

DirCreatePaths == {PathDA, PathDAB, PathDABA}
\* Entries the callback has room for; DirRooms and more never stops it.
DirRooms == 5

DirCreate ==
    \E path \in DirCreatePaths :
        /\ CreateOp(1, path, 420, {"O_CREAT", "O_WRONLY"})
        /\ created' = IF last'.ret = 0 THEN created \cup {path} ELSE created

DirNext ==
    \/ DirCreate
    \/ Release(1, FALSE)
    \/ Recycle(1)
    \/ \E rev \in BOOLEAN, broken \in SUBSET (EntriesOf(PathD) \ {Dot, DotDot}),
          room \in {0, 1, DirRooms} :
          Readdir(PathD, rev, broken, room)
    \/ Readdir(PathDA, FALSE, {}, DirRooms)

DirSpec == InitWith(<<PathD>>, <<>>) /\ [][DirNext]_vars

-----------------------------------------------------------------------------
(* IOSpec: reads and writes of one file by one worker thread *)

IoCreateFlags == {{"O_CREAT", "O_RDWR"}, {"O_CREAT", "O_WRONLY", "O_APPEND"}}
IoOpenFlags == {{"O_RDWR"}}
IoBufs == {<<>>, <<1, 2>>}
IoOffsets == {0, 1}

IoCreate ==
    \E fl \in IoCreateFlags : CreateOp(1, PathA, 420, fl) /\ UNCHANGED created

IoRelease == \E s \in Sessions : obs[s].state = "Open" /\ Release(s, FALSE)

IoNext ==
    \/ IoCreate
    \/ \E s \in Sessions \ {1}, fl \in IoOpenFlags : Open(s, PathA, fl)
    \/ IoRelease
    \/ \E s \in Sessions : Read(s, 2, 0)
    \/ \E s \in Sessions, buf \in IoBufs, offset \in IoOffsets :
          WriteCall(1, s, buf, offset)
    \/ \E oc \in Outcomes(MaxFileLen) : WriteIter(1, oc)

IOSpec == Init /\ [][IoNext]_vars

-----------------------------------------------------------------------------
(* ConcSpec: worker threads writing disjoint ranges of one file *)

ConcCreateFlags == {{"O_CREAT", "O_WRONLY"}, {"O_CREAT", "O_WRONLY", "O_APPEND"}}

\* Thread t writes through session t: thread 1 one byte at offset 2, thread
\* 2 two bytes at offset 0, a further thread one byte past those.
ConcBuf(t) == IF t = 1 THEN <<3>> ELSE IF t = 2 THEN <<1, 2>> ELSE <<t + 1>>
ConcOffset(t) == IF t = 1 THEN 2 ELSE IF t = 2 THEN 0 ELSE t

ConcCreate ==
    \E fl \in ConcCreateFlags : CreateOp(1, PathA, 420, fl) /\ UNCHANGED created

ConcOpen == \E s \in Sessions \ {1} : Open(s, PathA, {"O_RDWR"})

ConcWrite ==
    \E t \in Threads \cap Sessions :
        thr[t].pc = "idle" /\ WriteCall(t, t, ConcBuf(t), ConcOffset(t))

ConcNext ==
    \/ ConcCreate
    \/ ConcOpen
    \/ ConcWrite
    \/ \E t \in Threads, oc \in Outcomes(MaxFileLen) : WriteIter(t, oc)

ConcSpec == Init /\ [][ConcNext]_vars

-----------------------------------------------------------------------------
(* PathSpec: get_full_path as a function of the virtual path *)

Translate ==
    /\ Len(tout) < MaxTranslations
    /\ tout' = Append(tout, get_full_path(tpath, PATH_MAX))
    /\ UNCHANGED <<DIR_PATH, fs, inodes, fdt, fi, obs, last, created, thr, tpath>>

InitPath ==
    /\ InitBackend
    /\ InitCore
    /\ tpath \in AllVPaths

PathSpec == InitPath /\ [][Translate]_vars

-----------------------------------------------------------------------------
(* Claims about the namespace operations, under Spec *)

RenameDone == last.op = "rename"

\* C4: rename with non-zero flags fails with EINVAL, issues no backend call
\* and leaves the backend store as it was, whatever from and to are.
C4_RenameFlagsRejected ==
    [][(last'.op = "rename" /\ last'.flags # 0)
        => /\ last'.ret = Errno(EINVAL)
           /\ last'.calls = <<>>
           /\ fs' = fs /\ inodes' = inodes /\ fdt' = fdt]_vars

\* C4 witness: a flagged rename was rejected although `from` exists and `to`
\* does not, so that the backend would have renamed.
C4_Witness ==
    /\ RenameDone /\ last.flags # 0 /\ last.ret = Errno(EINVAL)
    /\ basic_getattr(last.path).ret = 0
    /\ basic_getattr(last.to).ret = Errno(ENOENT)

\* What C5 promises of the state a successful rename leaves.
RenameMoved ==
    /\ basic_getattr(last.path).ret = Errno(ENOENT)
    /\ basic_getattr(last.to).ret = 0
    /\ basic_getattr(last.to).stbuf = last.out.from

\* C5 as claimed: after every successful rename(from, to) with flags 0,
\* getattr(from) fails with ENOENT and getattr(to) gives the attributes the
\* file at `from` had.
C5_RenameAtomicAllPaths ==
    (RenameDone /\ last.flags = 0 /\ last.ret = 0) => RenameMoved

\* C5 as amended: the same, for from and to that did not name the same file
\* before the call (the same path, two paths with one translation, two
\* names of one file).
C5_RenameAtomic ==
    (RenameDone /\ last.flags = 0 /\ last.ret = 0
        /\ last.out.to.ino # last.out.from.ino) => RenameMoved

\* C5 witness: a successful rename onto another, existing file.
C5_Witness ==
    /\ RenameDone /\ last.flags = 0 /\ last.ret = 0
    /\ last.out.to.kind = "file"
    /\ last.out.to.ino # last.out.from.ino
    /\ RenameMoved

-----------------------------------------------------------------------------
(* Claims about the handle table, under SessSpec *)

\* Every session so far was released at most once after its open or create.
Discipline == \A s \in Sessions : obs[s].rel <= 1

OpenFds == {d \in Fds : fdt[d] # NoFd}

\* C3: when every successful open/create is followed by exactly one release
\* of its session, the backend sees exactly one close for it, on the
\* descriptor the open/create bound; before the release it sees none, and
\* the descriptors left open are those of the sessions not yet released.
C3_OneClosePerOpen ==
    Discipline =>
        /\ \A s \in Sessions :
              /\ obs[s].state = "Released" => obs[s].closed = <<obs[s].bound>>
              /\ obs[s].state = "Open" => obs[s].closed = <<>>
        /\ OpenFds = {0, 1, 2} \cup
              {obs[s].bound : s \in {x \in Sessions : obs[x].state = "Open"}}

\* C3 witness: one session released once, its close seen on its descriptor,
\* while another session is still open.
C3_Witness ==
    /\ Discipline
    /\ \E s, u \in Sessions :
          /\ obs[s].state = "Released" /\ obs[s].closed = <<obs[s].bound>>
          /\ obs[s].bound >= 3
          /\ obs[u].state = "Open" /\ obs[u].bound # obs[s].bound

\* The backend failures of the last operation that the handler may keep to
\* itself: the per-entry lookup of readdir, and an interrupted pwrite.
MaySwallow(c) ==
    \/ last.op = "readdir" /\ c.call = "lstat"
    \/ c.call = "pwrite" /\ c.err = EINTR

\* C10 as claimed: every failure of a backend call made by an operation is
\* the operation's return value, as the negative error code, but for the
\* per-entry lookup of readdir.
C10_ErrorsPropagated ==
    \A i \in 1..Len(last.calls) :
        (last.calls[i].err # 0 /\ ~MaySwallow(last.calls[i]))
            => last.ret = Errno(last.calls[i].err)

\* C11 as claimed: a release of a session that an earlier release has
\* already invalidated closes no backend descriptor and returns success.
C11_SecondReleaseClosesNothing ==
    (last.op = "release" /\ obs[last.s].rel >= 2)
        => last.ret = 0 /\ last.calls = <<>>

\* The last operation was an open or a create whose backend open failed.
OpenFailed == last.op \in {"open", "create"} /\ last.calls[1].err # 0

\* C12: when the backend open fails in open or create, the handler returns
\* the negative error code of that failure, the session stays Closed with
\* its handle field as it was, and the descriptor table is as before.
C12_FailedOpenLeavesClosed ==
    [][(last'.op \in {"open", "create"} /\ last'.calls[1].err # 0)
        => /\ last'.ret = Errno(last'.calls[1].err) /\ last'.ret < 0
           /\ obs'[last'.s] = obs[last'.s]
           /\ obs'[last'.s].state = "Closed"
           /\ fi'[last'.s].fh = fi[last'.s].fh
           /\ fdt' = fdt]_vars

\* C12 witness: a create failed with ENOTDIR on a closed session while the
\* other session holds an open descriptor.
C12_Witness ==
    /\ OpenFailed /\ last.op = "create" /\ last.ret = Errno(ENOTDIR)
    /\ obs[last.s].state = "Closed" /\ fi[last.s].fh = 0
    /\ \E u \in Sessions : obs[u].state = "Open" /\ fdt[obs[u].bound] # NoFd

\* C13: while every session is released at most once per open/create, no
\* two Open sessions hold the same descriptor and the descriptor of every
\* Open session is open in the backend.
C13_NoSharedDescriptor ==
    Discipline =>
        \A s \in Sessions :
            obs[s].state = "Open" =>
                /\ fi[s].fh = obs[s].bound
                /\ fdt[fi[s].fh] # NoFd
                /\ \A u \in Sessions \ {s} :
                      obs[u].state = "Open" => fi[u].fh # fi[s].fh

\* C13 witness: two sessions open on the same file at once, the second by
\* a successful open, each with a descriptor of its own.
C13_Witness ==
    /\ Discipline
    /\ \A s \in Sessions : obs[s].state = "Open"
    /\ \E s, u \in Sessions :
          /\ s # u /\ fi[s].fh # fi[u].fh
          /\ fdt[fi[s].fh].ino = fdt[fi[u].fh].ino
    /\ last.op = "open" /\ last.ret = 0

-----------------------------------------------------------------------------
(* Claims about directory enumeration, under DirSpec *)

\* The last operation was a readdir whose opendir succeeded.
ReaddirDone == last.op = "readdir" /\ last.calls[1].err = 0

\* The names the last readdir handed to the callback.
Emitted == {last.out.emitted[i] : i \in 1..Len(last.out.emitted)}

\* What C7 promises: success, and exactly the entries whose lookup did not
\* fail were handed to the callback.
SkippedExactlyBroken ==
    /\ last.ret = 0
    /\ Emitted = EntriesOf(last.path) \ last.out.broken

\* C7 as claimed: when the lookup of some entries fails, readdir skips
\* exactly those entries, emits every other entry and returns success.
C7_SkipsBrokenEmitsAllOthers ==
    (ReaddirDone /\ last.out.broken # {}) => SkippedExactlyBroken

\* C7 as amended: the same, when the callback does not signal stop during
\* the enumeration.
C7_SkipsBrokenUnlessStopped ==
    (ReaddirDone /\ last.out.broken # {} /\ ~last.out.stopped)
        => SkippedExactlyBroken

\* C7 witness: an enumeration that skipped a broken entry and emitted
\* another created file beside the directory's own two entries.
C7_Witness ==
    /\ ReaddirDone /\ ~last.out.stopped /\ last.ret = 0
    /\ last.out.broken # {}
    /\ Cardinality(Emitted) = 3
    /\ Emitted = EntriesOf(last.path) \ last.out.broken

\* The name a create of virtual path p asks for in its directory.
NameOf(p) == Last(Split(p, <<>>, <<>>))

\* Each created name and the directory's own entries emitted, once each.
EmitsCreated ==
    /\ Emitted = {Dot, DotDot} \cup {NameOf(p) : p \in created}
    /\ Len(last.out.emitted) = Cardinality(Emitted)

\* C8 as claimed: after successful creates of distinct names in a directory
\* and no removals, a readdir whose callback never signals stop emits
\* exactly the created names plus the directory's own entries, each once.
C8_EmitsExactlyCreated ==
    (ReaddirDone /\ ~last.out.stopped) => EmitsCreated

\* C8 as amended: the same, when the translation of no created path was cut
\* at the path-length bound and no entry's lookup fails during the readdir.
C8_EmitsCreatedUncut ==
    (/\ ReaddirDone /\ ~last.out.stopped
     /\ last.out.broken = {}
     /\ \A p \in created : Len(DIR_PATH \o p) <= PATH_MAX - 1)
        => EmitsCreated

\* C8 witness: two files created, and a complete enumeration of both.
C8_Witness ==
    /\ ReaddirDone /\ ~last.out.stopped /\ last.out.broken = {}
    /\ created = {PathDA, PathDAB}
    /\ Len(last.out.emitted) = 4
    /\ EmitsCreated

\* C14: when the callback signals stop (it was handed more entries than it
\* has room for), the entry it stopped on is the last one emitted and
\* readdir returns success.
C14_StopEndsEnumeration ==
    (ReaddirDone /\ Len(last.out.emitted) > last.out.room)
        => /\ Len(last.out.emitted) = last.out.room + 1
           /\ last.ret = 0

\* C14 witness: the callback stopped on its second entry while entries
\* whose lookup succeeds were still to come.
C14_Witness ==
    /\ ReaddirDone /\ last.out.room = 1 /\ Len(last.out.emitted) = 2
    /\ last.ret = 0
    /\ Cardinality(EntriesOf(last.path) \ last.out.broken) > 2

\* The closedir calls among the backend calls `calls`.
Closedirs(calls) == {i \in 1..Len(calls) : calls[i].call = "closedir"}

\* C15: a readdir leaves the descriptor table as it found it; when opendir
\* gave a handle, exactly one closedir is issued, on that handle, and when
\* opendir failed none is.
C15_NoDirHandleLeak ==
    [][last'.op = "readdir"
        => /\ fdt' = fdt
           /\ IF last'.calls[1].err = 0
              THEN /\ Cardinality(Closedirs(last'.calls)) = 1
                   /\ \A i \in Closedirs(last'.calls) :
                         /\ i = Len(last'.calls)
                         /\ last'.calls[i].fd = last'.calls[1].fd
              ELSE /\ Closedirs(last'.calls) = {}
                   /\ Len(last'.calls) = 1]_vars

\* C15 witness: an enumeration that skipped an entry and was stopped early
\* by the callback, with its handle closed again.
C15_Witness ==
    /\ ReaddirDone /\ last.out.stopped /\ last.out.broken # {}
    /\ Cardinality(Closedirs(last.calls)) = 1
    /\ fdt[last.calls[1].fd] = NoFd

-----------------------------------------------------------------------------
(* Claims about reads and writes, under IOSpec *)

\* The call of basic_write that thread 1 made last has returned.
WriteDone == thr[1].pc = "done"

\* C1 as claimed: a write that has returned gave len(bytes), and the file
\* then holds bytes at [offset, offset + len(bytes)), or gave a negative
\* error code, however the backend split the data.
C1_WriteAllOrError ==
    WriteDone =>
        \/ thr[1].ret < 0
        \/ /\ thr[1].ret = thr[1].size
           /\ Range(inodes[thr[1].ino].data, thr[1].offset, thr[1].size)
                 = thr[1].buf

\* C2 as claimed: an iteration of the loop of basic_write that is not an
\* interrupt leaves fewer bytes to write, or ends the call with an error.
C2_IterationMakesProgress ==
    [][(/\ thr[1].pc = "loop"
        /\ last'.op = "write" /\ last'.calls # <<>>
        /\ thr'[1].errno # EINTR)
        => \/ thr'[1].to_write < thr[1].to_write
           \/ thr'[1].pc = "done" /\ thr'[1].ret < 0]_vars

\* The last operation read len(bytes) bytes at offset 0 of the file that
\* thread 1 had written bytes to at offset 0, through the session that
\* created the file, when the file was still empty; the write gave
\* len(bytes).
ReadAfterFirstWrite ==
    /\ last.op = "read"
    /\ WriteDone /\ thr[1].fresh /\ thr[1].before = <<>>
    /\ thr[1].offset = 0 /\ thr[1].ret = thr[1].size
    /\ last.out.offset = 0 /\ last.out.size = thr[1].size
    /\ fdt[fi[last.s].fh].ino = thr[1].ino

ReadGaveBytes == last.ret = thr[1].size /\ last.out.bytes = thr[1].buf

\* C6 as claimed: the read gives exactly bytes through any open session of
\* the file, the one bound by create or one of a later open.
C6_RoundTripAnySession == ReadAfterFirstWrite => ReadGaveBytes

\* C6 as amended: the read gives exactly bytes through a session whose
\* descriptor is open for reading (one of a later open with read access);
\* through the session bound by create, which is write-only, it fails with
\* EBADF.
C6_RoundTripReadableSession ==
    ReadAfterFirstWrite =>
        IF WantsRead(fdt[fi[last.s].fh].flags) THEN ReadGaveBytes
        ELSE last.ret = Errno(EBADF)

\* C6 witness: bytes written through the create session of a new file and
\* read back through a session of a later open.
C6_Witness ==
    /\ ReadAfterFirstWrite
    /\ thr[1].size = 2
    /\ obs[last.s].how = "open" /\ obs[thr[1].s].how = "create"
    /\ ReadGaveBytes

\* Byte i (from 1) of a file's data; a byte past the end reads as zero.
ByteAt(data, i) == IF i <= Len(data) THEN data[i] ELSE 0

\* C16 as claimed: after a write that a pwrite failed with an error other
\* than EINTR, the file differs from what the call found at most within
\* [offset, offset + k), k being the bytes accepted before the failure.
C16_HardErrorLeavesPrefix ==
    (WriteDone /\ thr[1].ret < 0)
        => \A i \in 1..(MaxFileLen + 1) :
              (i <= thr[1].offset \/ i > thr[1].offset + thr[1].p)
                  => ByteAt(inodes[thr[1].ino].data, i)
                        = ByteAt(thr[1].before, i)

\* C17: in the loop, off = offset + (size - to_write) and the data position
\* is size - to_write; an iteration whose pwrite is interrupted leaves off,
\* to_write, the data position and the file as they were and stays in the
\* loop, ready to issue the same pwrite again.
C17_InterruptRetriesSame ==
    [][/\ thr'[1].pc = "loop"
          => /\ thr'[1].off = thr'[1].offset + (thr'[1].size - thr'[1].to_write)
             /\ thr'[1].p = thr'[1].size - thr'[1].to_write
       /\ (/\ thr[1].pc = "loop"
           /\ last'.op = "write" /\ last'.calls # <<>>
           /\ last'.calls[1].err = EINTR)
          => /\ thr'[1].pc = "loop"
             /\ thr'[1].off = thr[1].off
             /\ thr'[1].to_write = thr[1].to_write
             /\ thr'[1].p = thr[1].p
             /\ inodes' = inodes]_vars

\* C17 witness: an interrupt after one of two bytes was written at offset 1.
C17_Witness ==
    /\ thr[1].pc = "loop" /\ thr[1].errno = EINTR
    /\ thr[1].offset = 1 /\ thr[1].p = 1 /\ thr[1].to_write = 1
    /\ thr[1].off = 2

\* C18: create opens with O_CREAT | O_WRONLY, and O_APPEND exactly when the
\* consumer's flags hold it; open opens with the consumer's flags as they
\* are; the descriptor a successful call binds was opened with those flags.
C18_OpenFlags ==
    /\ last.op = "create"
          => last.calls[1].flags =
                {"O_CREAT", "O_WRONLY"} \cup (last.flags \cap {"O_APPEND"})
    /\ last.op = "open" => last.calls[1].flags = last.flags
    /\ (last.op \in {"create", "open"} /\ last.ret = 0)
          => fdt[fi[last.s].fh].flags = last.calls[1].flags

\* C18 witness: a create asked for with O_RDWR opened the file write-only.
C18_Witness ==
    /\ last.op = "create" /\ last.ret = 0
    /\ "O_RDWR" \in last.flags
    /\ fdt[fi[last.s].fh].flags = {"O_CREAT", "O_WRONLY"}

\* Thread t's write has returned len(bytes).
Wrote(t) == thr[t].pc = "done" /\ thr[t].ret = thr[t].size /\ thr[t].size > 0

\* The byte ranges of the writes of threads t and u do not meet.
Disjoint(t, u) ==
    \/ thr[t].offset + thr[t].size <= thr[u].offset
    \/ thr[u].offset + thr[u].size <= thr[t].offset

\* C20 as claimed (under ConcSpec): when two threads have written disjoint
\* ranges of one file through two sessions, their pwrite calls interleaved
\* in any order, and both writes returned success, each range holds the
\* bytes of its own write.
C20_DisjointWritesKept ==
    \A t, u \in Threads :
        (/\ t # u /\ Wrote(t) /\ Wrote(u)
         /\ thr[t].s # thr[u].s /\ thr[t].ino = thr[u].ino
         /\ Disjoint(t, u))
            => Range(inodes[thr[t].ino].data, thr[t].offset, thr[t].size)
                  = thr[t].buf

-----------------------------------------------------------------------------
(* Claims about path translation, under PathSpec *)

\* Backend Root followed by the virtual path, cut to PATH_MAX - 1 characters.
Expected(p) ==
    IF Len(DirPathValue \o p) <= PATH_MAX - 1 THEN DirPathValue \o p
    ELSE SubSeq(DirPathValue \o p, 1, PATH_MAX - 1)

\* C9: every translation of a virtual path p is Backend Root concatenated
\* with p, cut to at most PATH_MAX - 1 characters when the concatenation is
\* longer; successive calls with the same p give the same backend path.
C9_TranslateIsRootPlusPath ==
    /\ \A i \in 1..Len(tout) : tout[i] = Expected(tpath)
    /\ \A i, j \in 1..Len(tout) : tout[i] = tout[j]

\* C9 witness: a path translated twice whose concatenation was cut.
C9_Witness ==
    /\ Len(tout) = 2
    /\ Len(DirPathValue \o tpath) > PATH_MAX - 1
    /\ Len(tout[2]) = PATH_MAX - 1

\* `q` cut to PATH_MAX - 1 characters.
Cut(q) == IF Len(q) <= PATH_MAX - 1 THEN q ELSE SubSeq(q, 1, PATH_MAX - 1)

\* The backend calls of the last operation that take a path.
PathCalls == {i \in 1..Len(last.calls) : last.calls[i].path # <<>>}

====
